---- MODULE Spec2Model ----
(***************************************************************************)
(* Breath-lead instrument: the per-sample DSP core (BreathLeadDSP), the    *)
(* voice that drives it (BreathLeadVoice) and the buffer it renders into.  *)
(*                                                                         *)
(* Numbers.  A float is modelled as a fixed-point integer with One = 2^12  *)
(* standing for 1.0, products truncated toward zero.  The IEEE values the  *)
(* code can produce by overflow or by 0 * inf are kept as the three        *)
(* sentinels PInf, NInf and NaN, with IEEE's rules for them (every         *)
(* comparison with NaN is false).  Frequencies are whole Hz, times whole   *)
(* milliseconds, gains whole dB, phases fixed-point turns with PhaseOne =  *)
(* 2^16 standing for one full turn.                                        *)
(***************************************************************************)
EXTENDS Integers, Sequences, FiniteSets, TLC

VARIABLES
    dsp,        \* dsp[d]: the fields of BreathLeadDSP instance d
    voice,      \* voice[d]: the fields of the BreathLeadVoice that owns dsp[d]
    oscPhase,   \* the function-local static of BreathLeadDSP::render
    out,        \* the caller's audio buffer: out[c][k], channel c, index k
    call,       \* the render call in progress, or idle
    fault,      \* "none", or what an invalid memory access did
    nsamp,      \* samples rendered so far
    last,       \* the operation that completed last
    log         \* per instance: the calls received and the samples produced

vars == <<dsp, voice, oscPhase, out, call, fault, nsamp, last, log>>

-----------------------------------------------------------------------------
(* Bounds of the model *)

MaxSamples == 3     \* samples rendered in one behaviour
BufLen == 2         \* samples per channel of the caller's buffer
MaxChannels == 2    \* channels of the caller's buffer: 0 .. MaxChannels
MaxLog == 6         \* calls recorded per instance when recording is on

-----------------------------------------------------------------------------
(* Fixed-point floats *)

One == 2^12
PhaseOne == 2^16
PInf == 2^30
NInf == -(2^30)
NaN == 2^30 + 1

Inst == {1, 2}

IsNaN(a) == a = NaN
IsInf(a) == a = PInf \/ a = NInf
IsFin(a) == ~IsNaN(a) /\ ~IsInf(a)

Abs(a) == IF a < 0 THEN -a ELSE a
Sgn(a) == IF a < 0 THEN -1 ELSE IF a > 0 THEN 1 ELSE 0
Min(a, b) == IF b < a THEN b ELSE a
Max(a, b) == IF a < b THEN b ELSE a

\* integer division truncating toward zero, as a float product rounds a
\* magnitude down to the grid
TDiv(a, b) == IF a >= 0 THEN a \div b ELSE -((-a) \div b)

\* a + b in IEEE arithmetic
FAdd(a, b) ==
    IF IsNaN(a) \/ IsNaN(b) THEN NaN
    ELSE IF IsInf(a) /\ IsInf(b) THEN (IF a = b THEN a ELSE NaN)
    ELSE IF IsInf(a) THEN a
    ELSE IF IsInf(b) THEN b
    ELSE a + b

FNeg(a) == IF IsNaN(a) THEN NaN ELSE -a

FSub(a, b) == FAdd(a, FNeg(b))

\* a * b of two fixed-point values in IEEE arithmetic: 0 * inf is NaN
FMul(a, b) ==
    IF IsNaN(a) \/ IsNaN(b) THEN NaN
    ELSE IF IsInf(a) \/ IsInf(b)
         THEN (IF a = 0 \/ b = 0 THEN NaN
               ELSE IF Sgn(a) * Sgn(b) > 0 THEN PInf ELSE NInf)
    ELSE TDiv(a * b, One)

\* a / n for a positive count n
FDivN(a, n) == IF IsFin(a) THEN TDiv(a, n) ELSE a

\* a < b in IEEE arithmetic: false when either is NaN
FLt(a, b) == ~IsNaN(a) /\ ~IsNaN(b) /\ a < b

\* std::clamp(v, lo, hi) == (v < lo) ? lo : (hi < v) ? hi : v
Clamp(v, lo, hi) == IF FLt(v, lo) THEN lo ELSE IF FLt(hi, v) THEN hi ELSE v

\* the fixed-point value of the literal num/den
Fx(num, den) == (num * One) \div den

\* a * b of two finite fixed-point values
Mul(a, b) == TDiv(a * b, One)

\* a >= b in IEEE arithmetic: false when either is NaN
FGe(a, b) == ~IsNaN(a) /\ ~IsNaN(b) /\ a >= b

-----------------------------------------------------------------------------
(* The library functions the code calls, on fixed-point values *)

\* floor(2^20 * exp(-1/n)) for a whole n >= 1, by the series of exp
ExpSeries(n) ==
    LET E  == 2^20
        t1 == E \div n
        t2 == t1 \div (2 * n)
        t3 == t2 \div (3 * n)
        t4 == t3 \div (4 * n)
        t5 == t4 \div (5 * n)
        t6 == t5 \div (6 * n)
        t7 == t6 \div (7 * n)
        t8 == t7 \div (8 * n)
    IN  E - t1 + t2 - t3 + t4 - t5 + t6 - t7 + t8

\* std::exp(-1.0f / n) for n = tau * sr samples.  n = 0 gives exp(-inf) = 0;
\* a single-precision result rounds to exactly 1.0f once 1/n < 2^-25, and is
\* below 1.0f otherwise.
ExpNegInv(n) ==
    IF n <= 0 THEN 0
    ELSE IF n > 2^25 THEN One
    ELSE Min(One - 1, ExpSeries(n) \div (2^20 \div One))

\* tau * sr in whole samples, tau = std::max(0.0001f, ms / 1000.0f)
TauSamples(ms, sr) ==
    LET tenths == Max(1, 10 * ms)      \* tau in units of 0.1 ms
    IN  IF tenths >= 10000 THEN (tenths \div 10000) * sr
        ELSE (tenths * sr) \div 10000

\* 1024 * 2^(k/12), k = 0 .. 11
Semitone(k) ==
    CASE k = 0 -> 1024 [] k = 1 -> 1085 [] k = 2 -> 1149 [] k = 3 -> 1218
      [] k = 4 -> 1290 [] k = 5 -> 1367 [] k = 6 -> 1448 [] k = 7 -> 1534
      [] k = 8 -> 1625 [] k = 9 -> 1722 [] k = 10 -> 1825 [] OTHER -> 1933

\* std::pow(2.0f, e) for a small exponent e, |e| < 1/4
Pow2(e) ==
    IF ~IsFin(e) THEN NaN
    ELSE One + Mul(Fx(6931, 10000), e) + Mul(Fx(2402, 10000), Mul(e, e))

\* std::log2(r) of a positive fixed-point ratio r
RECURSIVE Log2(_)
Log2(r) ==
    IF r >= 2 * One THEN One + Log2(r \div 2)
    ELSE IF r < One THEN Log2(2 * r) - One
    ELSE r - One

\* std::sin(p * 2 * pi) of a phase p in turns; sin of a non-finite value is NaN
SinTurn(p) ==
    IF ~IsFin(p) THEN NaN
    ELSE LET half == PhaseOne \div 2
             x    == p % PhaseOne
             arc(z) == (z * (half - z)) \div ((half * half) \div (4 * One))
         IN  IF x < half THEN arc(x) ELSE -arc(x - half)

-----------------------------------------------------------------------------
(* src/src/dsp/BreathLeadDSP.cpp: the pure helpers *)

\* static inline float dbToLin(float db): 10^(db/20), 6 dB to the octave.  A
\* float overflows to +inf above 770 dB and underflows to 0 below -900 dB;
\* finite gains above 30 dB saturate at the largest gain of the model.
dbToLin(db) ==
    IF db > 770 THEN PInf
    ELSE IF db < -900 THEN 0
    ELSE LET oct  == db \div 6
             r    == db % 6
             mant == One + (One * r) \div 6
         IN  IF oct >= 0 THEN mant * 2^Min(oct, 5)
             ELSE mant \div 2^Min(-oct, 12)

\* BreathLeadDSP::coeffFromMs, BreathLeadVoice::coeffFromMs
coeffFromMs(ms, sr) == ExpNegInv(TauSamples(ms, sr))

\* BreathLeadDSP::midiToHzClamp
midiToHzClamp(hz) == Clamp(hz, 20, 12000)

\* static inline float midiToHz(int midiNote), in whole Hz
midiToHz(note) ==
    LET oct  == (note - 69) \div 12
        k    == (note - 69) % 12
        base == 440 * Semitone(k)
    IN  IF oct >= 0 THEN (base * 2^oct) \div 1024
        ELSE base \div (1024 * 2^(-oct))

-----------------------------------------------------------------------------
(* juce::SmoothedValue<float> (linear): current value, target, countdown,  *)
(* ramp length in steps and the step of the ramp in progress               *)

SmNew == [cur |-> 0, tgt |-> 0, cd |-> 0, steps |-> 0, step |-> 0]

\* reset(sampleRate, rampSeconds): the ramp length, and the current value
\* jumps to the target; rampMs is the ramp in milliseconds
SmReset(s, sr, rampMs) ==
    [cur |-> s.tgt, tgt |-> s.tgt, cd |-> 0,
     steps |-> (sr * rampMs) \div 1000, step |-> 0]

\* setTargetValue(v)
SmSetTarget(s, v) ==
    IF v = s.tgt /\ ~IsNaN(v) THEN s
    ELSE IF s.steps <= 0 THEN [s EXCEPT !.cur = v, !.tgt = v, !.cd = 0, !.step = 0]
    ELSE [s EXCEPT !.tgt = v, !.cd = s.steps,
                   !.step = FDivN(FSub(v, s.cur), s.steps)]

\* the smoother after getNextValue()
SmAdvance(s) ==
    IF s.cd = 0 THEN s
    ELSE IF s.cd - 1 > 0 THEN [s EXCEPT !.cd = s.cd - 1, !.cur = FAdd(s.cur, s.step)]
    ELSE [s EXCEPT !.cd = 0, !.cur = s.tgt, !.step = 0]

\* the value getNextValue() returns
SmValue(s) == IF s.cd = 0 THEN s.tgt ELSE SmAdvance(s).cur

-----------------------------------------------------------------------------
(* NoiseGen, MotionEnergy and SoftLimiter of dsp/BreathLeadDSP.h, and the   *)
(* juce::dsp filters, each by its contract                                 *)

NoiseMod == 16
NoiseSeed == 305419896       \* 0x12345678

\* noise.reset(seed)
NoiseReset(seed) == [s |-> seed % NoiseMod, pink |-> 0]

\* one step of the generator, and the white sample of a generator state
NoiseStep(s) == (5 * s + 3) % NoiseMod
White(s) == ((2 * s - (NoiseMod - 1)) * One) \div (NoiseMod - 1)

\* nextWhite(): the generator after it, and the sample
NoiseAfterWhite(n) == [n EXCEPT !.s = NoiseStep(n.s)]
NextWhite(n) == White(NoiseStep(n.s))

\* nextPink(): white noise through a one-pole smoothing filter
NoiseAfterPink(n) ==
    [s |-> NoiseStep(n.s), pink |-> TDiv(n.pink + White(NoiseStep(n.s)), 2)]
NextPink(n) == NoiseAfterPink(n).pink

\* MotionEnergy: the last value seen and the smoothed energy
MeNew == [prev |-> 0, e |-> 0]

\* process(value, sensitivity): the estimator after it; its energy is the result
MeProcess(m, v, sens) ==
    IF ~IsFin(v) \/ ~IsFin(m.prev) \/ ~IsFin(m.e) \/ ~IsFin(sens)
    THEN [prev |-> v, e |-> NaN]
    ELSE LET raw == Min(One, 4 * Mul(Abs(v - m.prev), sens))
         IN  [prev |-> v, e |-> TDiv(m.e + raw, 2)]

\* SoftLimiter::process(x) = x / (1 + |x|): monotonic, odd-symmetric, |y| < 1
SoftLimit(x) ==
    IF IsNaN(x) THEN NaN
    ELSE IF x = PInf THEN One
    ELSE IF x = NInf THEN -One
    ELSE TDiv(x * One, One + Abs(x))

\* the coefficient of a filter tuned to fc Hz at sample rate sr, in [0, 1]
CutoffCoeff(fc, sr) ==
    IF ~IsFin(fc) \/ sr <= 0 THEN NaN
    ELSE Clamp((2 * fc * One) \div sr, 0, One)

\* one filter register after input x
FilterState(s, x, g) == FAdd(s, FMul(g, FSub(x, s)))

\* StateVariableTPTFilter (bandpass): processSample's output
BandPassOut(s, x, g, res) == FMul(res, FSub(FilterState(s, x, g), s))

\* IIR::Filter made by makeHighPass / makeLowPass: processSample's output
HighPassOut(s, x, g) == FSub(x, FilterState(s, x, g))
LowPassOut(s, x, g) == FilterState(s, x, g)

FiltersCleared == [pitchBP |-> 0, form1BP |-> 0, form2BP |-> 0, hp |-> 0, lp |-> 0]
MotionCleared == [mw |-> MeNew, at |-> MeNew, pb |-> MeNew, pitch |-> MeNew]

-----------------------------------------------------------------------------
(* BreathLeadDSP: the object and its operations, each a function from the  *)
(* object before the call to the object after it                           *)

SmNames == {"air", "tone", "formant", "resist", "vibrDepth", "vibrRate",
            "noiseColor", "sineAnchor", "motionSens", "outGain"}

\* the ramp prepare() gives each smoother, in milliseconds
RampMs(k) == IF k \in {"air", "tone", "formant", "resist"} THEN 20 ELSE 50

\* a BreathLeadDSP after construction
DspNew ==
    [sr |-> 0, prepared |-> FALSE, paramsSet |-> FALSE,
     gate |-> FALSE, phase |-> 0, env |-> 0,
     pitchHz |-> 220, velocity |-> 0, modWheel |-> 0, aftertouch |-> 0,
     pitchBend |-> 0, envA |-> 0, envR |-> 0, motionSustainEnabled |-> FALSE,
     sm |-> [k \in SmNames |-> SmNew],
     noise |-> NoiseReset(NoiseSeed),
     filt |-> FiltersCleared,
     me |-> MotionCleared]

\* BreathLeadDSP::reset
DspReset(o) ==
    [o EXCEPT !.gate = FALSE, !.phase = 0, !.env = 0,
              !.filt = FiltersCleared, !.me = MotionCleared]

\* BreathLeadDSP::prepare
DspPrepare(o, sampleRate) ==
    DspReset([o EXCEPT !.sr = sampleRate, !.prepared = TRUE,
                       !.filt = FiltersCleared,
                       !.noise = NoiseReset(NoiseSeed),
                       !.me = MotionCleared,
                       !.sm = [k \in SmNames |-> SmReset(o.sm[k], sampleRate, RampMs(k))]])

\* BreathLeadDSP::setPitchHz, setGate, setVelocity, setModWheel, setAftertouch,
\* setPitchBendNorm
DspSetPitchHz(o, hz) == [o EXCEPT !.pitchHz = midiToHzClamp(hz)]
DspSetGate(o, isOn) == [o EXCEPT !.gate = isOn]
DspSetVelocity(o, vel01) == [o EXCEPT !.velocity = Clamp(vel01, 0, One)]
DspSetModWheel(o, mw01) == [o EXCEPT !.modWheel = Clamp(mw01, 0, One)]
DspSetAftertouch(o, at01) == [o EXCEPT !.aftertouch = Clamp(at01, 0, One)]
DspSetPitchBendNorm(o, pbNorm) == [o EXCEPT !.pitchBend = Clamp(pbNorm, -One, One)]

\* BreathLeadDSP::setParams; p holds the thirteen arguments
DspSetParams(o, p) ==
    [o EXCEPT
       !.paramsSet = TRUE,
       !.sm = [k \in SmNames |->
                 SmSetTarget(o.sm[k],
                   CASE k = "air"        -> Clamp(p.air, 0, One)
                     [] k = "tone"       -> Clamp(p.tone, 0, One)
                     [] k = "formant"    -> Clamp(p.formant, 0, One)
                     [] k = "resist"     -> Clamp(p.resistance, 0, One)
                     [] k = "vibrDepth"  -> Clamp(p.vibrDepth, 0, One)
                     [] k = "vibrRate"   -> Clamp(p.vibrRateHz, One \div 2, 8 * One)
                     [] k = "noiseColor" -> Clamp(p.noiseColor, 0, One)
                     [] k = "sineAnchor" -> Clamp(p.sineAnchor, 0, One)
                     [] k = "motionSens" -> Clamp(p.motionSensitivity, 0, One)
                     [] OTHER            -> dbToLin(p.outputGainDb))],
       !.motionSustainEnabled = p.motionSustain,
       !.envA = coeffFromMs(Max(1, p.attackMs), o.sr),
       !.envR = coeffFromMs(Max(5, p.releaseMs), o.sr)]

-----------------------------------------------------------------------------
(* BreathLeadDSP::render: one pass of the sample loop                      *)

\* std::min(a, b) == (b < a) ? b : a
FMin(a, b) == IF FLt(b, a) THEN b ELSE a

\* x / sr as a phase increment, x in fixed-point Hz: x / 0 is inf, 0 / 0 NaN
RateOverSr(x, sr) ==
    IF IsNaN(x) THEN NaN
    ELSE IF sr = 0 THEN (IF x = 0 THEN NaN ELSE IF x > 0 THEN PInf ELSE NInf)
    ELSE IF IsInf(x) THEN x
    ELSE (x * (PhaseOne \div One)) \div sr

\* hz / sr as a phase increment, hz in whole Hz
HzOverSr(hz, sr) ==
    IF IsNaN(hz) THEN NaN
    ELSE IF sr = 0 THEN PInf
    ELSE (hz * PhaseOne) \div sr

\* phase += inc; if (phase >= 1.0f) phase -= 1.0f
PhaseAdvance(ph, inc) ==
    LET p1 == FAdd(ph, inc)
    IN  IF FGe(p1, PhaseOne) THEN FSub(p1, PhaseOne) ELSE p1

\* pitchHz * pitchMul, in whole Hz
HzTimes(hz, mul) == IF IsNaN(mul) \/ IsNaN(hz) THEN NaN ELSE TDiv(hz * mul, One)

\* the motion energy of this sample and the estimators after it (lines 139-149)
MotionStep(o, hz, motionSens) ==
    IF ~o.motionSustainEnabled THEN [me |-> o.me, motionE |-> 0]
    ELSE LET mMW == MeProcess(o.me.mw, o.modWheel, motionSens)
             mAT == MeProcess(o.me.at, o.aftertouch, motionSens)
             mPB == MeProcess(o.me.pb, o.pitchBend, motionSens)
             mP  == MeProcess(o.me.pitch,
                              IF IsFin(hz) THEN (hz * One) \div 2000 ELSE NaN,
                              motionSens)
             sum == FAdd(FAdd(FAdd(mMW.e, mAT.e), mPB.e), FMul(Fx(1, 2), mP.e))
         IN  [me |-> [mw |-> mMW, at |-> mAT, pb |-> mPB, pitch |-> mP],
              motionE |-> FMin(One, sum)]

\* a pressure target that leaves the motion energy out of the sum
PressureTargetNoMotion(gate, velocity, modWheel, motionE) ==
    IF ~gate THEN 0
    ELSE LET velSpeak == FAdd(Fx(20, 100), FMul(Fx(80, 100), velocity))
         IN  Clamp(FAdd(FMul(velSpeak, Fx(55, 100)), FMul(modWheel, Fx(75, 100))),
                   0, One)

\* the pressure target of this sample (lines 153-161)
PressureTarget(gate, velocity, modWheel, motionE) ==
    IF ~gate THEN 0
    ELSE LET velSpeak == FAdd(Fx(20, 100), FMul(Fx(80, 100), velocity))
         IN  Clamp(FAdd(FAdd(FMul(velSpeak, Fx(55, 100)), FMul(modWheel, Fx(75, 100))),
                        FMul(motionE, Fx(60, 100))),
                   0, One)


\* a follower with the sign of the error reversed: it lands beyond the target
EnvStepOvershoot(env, pressureTarget, envA, envR) ==
    LET coeff == IF FLt(env, pressureTarget) THEN envA ELSE envR
    IN  FAdd(pressureTarget, FMul(coeff, FSub(pressureTarget, env)))

\* the envelope after this sample (lines 163-164)
EnvStep(env, pressureTarget, envA, envR) ==
    LET coeff == IF FLt(env, pressureTarget) THEN envA ELSE envR
    IN  FAdd(pressureTarget, FMul(coeff, FSub(env, pressureTarget)))

\* y *= outGain; y = std::clamp(y, -1.0f, 1.0f) (lines 230-231)
OutputStage(y, outGain) == Clamp(FMul(y, outGain), -One, One)

\* The loop body of render (lines 116-231) on object o with the static
\* oscPhase at osc: the object and the static after it, and the sample y.
DspSample(o, osc) ==
    LET v(k)       == SmValue(o.sm[k])
        air        == v("air")
        tone       == v("tone")
        form       == v("formant")
        resist     == v("resist")
        vibrDepth  == v("vibrDepth")
        vibrRate   == v("vibrRate")
        noiseColor == v("noiseColor")
        sineAnchor == v("sineAnchor")
        motionSens == v("motionSens")
        outGain    == v("outGain")
        \* vibrato
        vibr       == FMul(SinTurn(o.phase), vibrDepth)
        phase2     == PhaseAdvance(o.phase, RateOverSr(vibrRate, o.sr))
        \* pitch with vibrato and pitch bend
        bendSemis  == 2 * o.pitchBend
        pitchMul   == Pow2(FDivN(FAdd(bendSemis, FMul(vibr, Fx(35, 100))), 12))
        hz         == midiToHzClamp(HzTimes(o.pitchHz, pitchMul))
        \* motion energy, pressure target, envelope
        mot        == MotionStep(o, hz, motionSens)
        target     == PressureTarget(o.gate, o.velocity, o.modWheel, mot.motionE)
        env2       == EnvStep(o.env, target, o.envA, o.envR)
        \* excitation
        w          == NextWhite(o.noise)
        noise1     == NoiseAfterWhite(o.noise)
        p          == NextPink(noise1)
        noise2     == NoiseAfterPink(noise1)
        n          == FAdd(FMul(One - noiseColor, w), FMul(noiseColor, p))
        osc2       == PhaseAdvance(osc, HzOverSr(hz, o.sr))
        sine       == SinTurn(osc2)
        resMix     == Clamp(resist, 0, One)
        excitation == FAdd(FMul(n, One - Mul(Fx(35, 100), resMix)),
                           FMul(sine, Mul(Fx(15, 100), sineAnchor)))
        drive      == FMul(air, env2)
        x          == FMul(excitation, drive)
        \* resonance stage
        f1raw      == TDiv((One - form) * 750 + form * 450, One)
        f2raw      == TDiv((One - form) * 1200 + form * 2000, One)
        track      == IF IsFin(hz)
                      THEN Clamp(Mul(Log2((hz * One) \div 220), Fx(8, 100)),
                                 -Fx(12, 100), Fx(18, 100))
                      ELSE NaN
        f1         == Clamp(HzTimes(f1raw, Pow2(track)), 120, 6000)
        f2         == Clamp(HzTimes(f2raw, Pow2(track)), 200, 8000)
        gP         == CutoffCoeff(hz, o.sr)
        g1         == CutoffCoeff(f1, o.sr)
        g2         == CutoffCoeff(f2, o.sr)
        yPitch     == BandPassOut(o.filt.pitchBP, x, gP, Fx(70, 100) + Mul(Fx(25, 100), resMix))
        yF1        == BandPassOut(o.filt.form1BP, x, g1, Fx(55, 100) + Mul(Fx(25, 100), resMix))
        yF2        == BandPassOut(o.filt.form2BP, x, g2, Fx(45, 100) + Mul(Fx(20, 100), resMix))
        yMix       == FAdd(FAdd(FMul(Fx(70, 100), yPitch), FMul(Fx(40, 100), yF1)),
                           FMul(Fx(30, 100), yF2))
        \* tone tilt
        hpHz       == 40 + TDiv((One - tone) * 120, One)
        lpHz       == 4500 + TDiv(tone * 11500, One)
        gH         == CutoffCoeff(hpHz, o.sr)
        gL         == CutoffCoeff(lpHz, o.sr)
        yH         == HighPassOut(o.filt.hp, yMix, gH)
        yL         == LowPassOut(o.filt.lp, yH, gL)
        \* saturation, output gain, safety clamp
        ySat       == SoftLimit(FMul(yL, Fx(120, 100) + Mul(Fx(90, 100), resMix)))
        y          == OutputStage(ySat, outGain)
    IN  [o |-> [o EXCEPT
                  !.sm    = [k \in SmNames |-> SmAdvance(o.sm[k])],
                  !.phase = phase2,
                  !.me    = mot.me,
                  !.env   = env2,
                  !.noise = noise2,
                  !.filt  = [pitchBP |-> FilterState(o.filt.pitchBP, x, gP),
                             form1BP |-> FilterState(o.filt.form1BP, x, g1),
                             form2BP |-> FilterState(o.filt.form2BP, x, g2),
                             hp      |-> FilterState(o.filt.hp, yMix, gH),
                             lp      |-> FilterState(o.filt.lp, yH, gL)]],
         osc |-> osc2,
         target |-> target,
         motionE |-> mot.motionE,
         y |-> y]

-----------------------------------------------------------------------------
(* BreathLeadVoice: the object and its note and controller handlers        *)

\* a BreathLeadVoice after construction; playingNote is the base class's
\* currentlyPlayingNote, -1 when the voice plays nothing
VoiceNew ==
    [sr |-> 0, targetHz |-> 220, currentHz |-> 220, glideCoeff |-> 0,
     portamentoMs |-> 60, playingNote |-> -1,
     pitchBendNorm |-> 0, modWheel01 |-> 0, aftertouch01 |-> 0]

\* SynthesiserVoice::isVoiceActive
isVoiceActive(vo) == vo.playingNote >= 0

\* BreathLeadVoice::setCurrentPlaybackSampleRate
VoiceSetRate(vo, o, newRate) ==
    [voice |-> [vo EXCEPT !.sr = newRate,
                          !.glideCoeff = coeffFromMs(Max(1, vo.portamentoMs), newRate)],
     dsp   |-> DspPrepare(o, newRate)]


\* a startNote that snaps the pitch whether or not the voice is active
VoiceStartNoteSnap(vo, o, midiNoteNumber, vel) ==
    [voice |-> [vo EXCEPT !.targetHz = midiToHz(midiNoteNumber),
                          !.currentHz = midiToHz(midiNoteNumber)],
     dsp   |-> DspSetVelocity(DspSetGate(o, TRUE), Clamp(vel, 0, One))]

\* BreathLeadVoice::startNote
VoiceStartNote(vo, o, midiNoteNumber, vel) ==
    [voice |-> [vo EXCEPT !.targetHz = midiToHz(midiNoteNumber),
                          !.currentHz = IF ~isVoiceActive(vo)
                                        THEN midiToHz(midiNoteNumber)
                                        ELSE vo.currentHz],
     dsp   |-> DspSetVelocity(DspSetGate(o, TRUE), Clamp(vel, 0, One))]

\* a stopNote that clears the current note whether or not a tail is allowed
VoiceStopNoteClear(vo, o, allowTailOff) ==
    [voice |-> [vo EXCEPT !.playingNote = -1],
     dsp   |-> DspSetGate(o, FALSE)]

\* BreathLeadVoice::stopNote; clearCurrentNote() leaves the voice inactive
VoiceStopNote(vo, o, allowTailOff) ==
    [voice |-> IF ~allowTailOff THEN [vo EXCEPT !.playingNote = -1] ELSE vo,
     dsp   |-> DspSetGate(o, FALSE)]

\* BreathLeadVoice::pitchWheelMoved
VoicePitchWheel(vo, o, newPitchWheelValue) ==
    LET norm == TDiv((newPitchWheelValue - 8192) * One, 8192)
    IN  [voice |-> [vo EXCEPT !.pitchBendNorm = Clamp(norm, -One, One)],
         dsp   |-> DspSetPitchBendNorm(o, Clamp(norm, -One, One))]

\* BreathLeadVoice::controllerMoved
VoiceController(vo, o, controllerNumber, newControllerValue) ==
    IF controllerNumber = 1
    THEN LET mw == Clamp(TDiv(newControllerValue * One, 127), 0, One)
         IN  [voice |-> [vo EXCEPT !.modWheel01 = mw], dsp |-> DspSetModWheel(o, mw)]
    ELSE [voice |-> vo, dsp |-> o]

\* BreathLeadVoice::aftertouchChanged
VoiceAftertouch(vo, o, newAftertouchValue) ==
    LET at == Clamp(TDiv(newAftertouchValue * One, 127), 0, One)
    IN  [voice |-> [vo EXCEPT !.aftertouch01 = at], dsp |-> DspSetAftertouch(o, at)]

-----------------------------------------------------------------------------
(* The caller's buffer *)

\* a cleared buffer of nch channels
ClearedBuffer(nch) == [c \in 1 .. nch |-> [k \in 1 .. BufLen |-> 0]]


\* a write that stores y instead of adding it
WriteSampleStore(buf, index, y) ==
    [c \in DOMAIN buf |-> [buf[c] EXCEPT ![index + 1] = y]]

\* ch[index] += y on every channel (lines 234-236); channel c is buf[c + 1]
\* and index k is position k + 1
WriteSample(buf, index, y) ==
    [c \in DOMAIN buf |-> [buf[c] EXCEPT ![index + 1] = FAdd(@, y)]]

-----------------------------------------------------------------------------
(* State *)

IdleCall == [op |-> "idle", d |-> 0, start |-> 0, n |-> 0, i |-> 0]

InitWith(recording) ==
    /\ dsp = [d \in Inst |-> DspNew]
    /\ voice = [d \in Inst |-> VoiceNew]
    /\ oscPhase = 0
    /\ out = ClearedBuffer(MaxChannels)
    /\ call = IdleCall
    /\ fault = "none"
    /\ nsamp = 0
    /\ last = [op |-> "init", d |-> 0, arg |-> 0]
    /\ log = [on |-> recording,
              calls |-> [d \in Inst |-> <<>>],
              outs |-> [d \in Inst |-> <<>>]]

Init == InitWith(FALSE)

\* no call is in progress and the process is alive
Ready == call.op = "idle" /\ fault # "segv"

\* the operation op(arg) on instance d completes
Done(op, d, arg) == last' = [op |-> op, d |-> d, arg |-> arg]

\* instance d receives the call c
Logged(d, c) ==
    /\ log.on => Len(log.calls[d]) < MaxLog
    /\ log' = IF log.on THEN [log EXCEPT !.calls[d] = Append(@, c)] ELSE log

\* a control operation on the DSP of instance d
DspOp(d, op, arg, after) ==
    /\ Ready
    /\ dsp' = [dsp EXCEPT ![d] = after]
    /\ Done(op, d, arg)
    /\ Logged(d, <<op, arg>>)
    /\ UNCHANGED <<voice, oscPhase, out, call, fault, nsamp>>

\* a handler of the voice of instance d
VoiceOp(d, op, arg, after) ==
    /\ Ready
    /\ dsp' = [dsp EXCEPT ![d] = after.dsp]
    /\ voice' = [voice EXCEPT ![d] = after.voice]
    /\ Done(op, d, arg)
    /\ Logged(d, <<op, arg>>)
    /\ UNCHANGED <<oscPhase, out, call, fault, nsamp>>

-----------------------------------------------------------------------------
(* Inputs *)

\* argument sets of setParams: 1 is a playable patch, 2 has every argument
\* below its domain, 3 has every argument above it
ParamSet(k) ==
    CASE k = 1 ->
           [air |-> One, tone |-> One \div 2, formant |-> One \div 2,
            resistance |-> One \div 2, vibrDepth |-> One \div 4, vibrRateHz |-> 5 * One,
            noiseColor |-> One \div 2, sineAnchor |-> One, motionSustain |-> FALSE,
            motionSensitivity |-> One \div 2, attackMs |-> 1, releaseMs |-> 5,
            outputGainDb |-> 0]
      [] k = 2 ->
           [air |-> -One, tone |-> -1, formant |-> -One, resistance |-> -One,
            vibrDepth |-> -One, vibrRateHz |-> 0, noiseColor |-> -1,
            sineAnchor |-> -One, motionSustain |-> TRUE,
            motionSensitivity |-> -One, attackMs |-> -5, releaseMs |-> 0,
            outputGainDb |-> -6]
      [] OTHER ->
           [air |-> 2 * One, tone |-> One + 1, formant |-> 3 * One,
            resistance |-> 2 * One, vibrDepth |-> 2 * One, vibrRateHz |-> 20 * One,
            noiseColor |-> One + 1, sineAnchor |-> 2 * One, motionSustain |-> TRUE,
            motionSensitivity |-> 2 * One, attackMs |-> 10000000,
            releaseMs |-> 10000000, outputGainDb |-> 1000]

-----------------------------------------------------------------------------
(* Actions: the DSP's interface *)

Prepare(d, rate) == DspOp(d, "prepare", rate, DspPrepare(dsp[d], rate))

Reset(d) == DspOp(d, "reset", 0, DspReset(dsp[d]))

SetPitchHz(d, hz) == DspOp(d, "setPitchHz", hz, DspSetPitchHz(dsp[d], hz))

SetGate(d, isOn) ==
    DspOp(d, "setGate", IF isOn THEN 1 ELSE 0, DspSetGate(dsp[d], isOn))

SetVelocity(d, v) == DspOp(d, "setVelocity", v, DspSetVelocity(dsp[d], v))

SetModWheel(d, v) == DspOp(d, "setModWheel", v, DspSetModWheel(dsp[d], v))

SetAftertouch(d, v) == DspOp(d, "setAftertouch", v, DspSetAftertouch(dsp[d], v))

SetPitchBendNorm(d, v) ==
    DspOp(d, "setPitchBendNorm", v, DspSetPitchBendNorm(dsp[d], v))

\* setParams with argument set k; the sample rate it reads is the one
\* prepare() stored
SetParams(d, k) ==
    /\ dsp[d].prepared
    /\ DspOp(d, "setParams", k, DspSetParams(dsp[d], ParamSet(k)))

\* The caller hands over a cleared buffer of nch channels
\* (BreathLeadPlugin::processBlock: buffer.clear()).
HostBuffer(nch) ==
    /\ Ready
    /\ out' = ClearedBuffer(nch)
    /\ Done("buffer", 0, nch)
    /\ UNCHANGED <<dsp, voice, oscPhase, call, fault, nsamp, log>>

\* render(out, startSample, numSamples) is entered: lines 111-112.  With
\* numSamples = 0 the loop body never runs and the call returns.
Render(d, startSample, numSamples) ==
    /\ Ready
    /\ dsp[d].prepared /\ dsp[d].paramsSet
    /\ startSample + numSamples <= BufLen
    /\ nsamp + numSamples <= MaxSamples
    /\ call' = IF numSamples = 0 THEN IdleCall
               ELSE [op |-> "render", d |-> d, start |-> startSample,
                     n |-> numSamples, i |-> 0]
    /\ Done("render", d, numSamples)
    /\ Logged(d, <<"render", numSamples>>)
    /\ UNCHANGED <<dsp, voice, oscPhase, out, fault, nsamp>>

\* One pass of render's loop, lines 114-237.  ch0 is getWritePointer(0): with
\* no channel it points at no sample, and the store through it at line 234 is
\* undefined behaviour: the process is killed, or the store lands outside the
\* buffer and the call goes on.
RenderSample ==
    /\ call.op = "render" /\ fault # "segv"
    /\ LET d == call.d
           r == DspSample(dsp[d], oscPhase)
       IN  /\ dsp' = [dsp EXCEPT ![d] = r.o]
           /\ oscPhase' = r.osc
           /\ nsamp' = nsamp + 1
           /\ Done("sample", d, r.y)
           /\ log' = IF log.on THEN [log EXCEPT !.outs[d] = Append(@, r.y)] ELSE log
           /\ IF Len(out) = 0
              THEN /\ fault' \in {"segv", "stray"}
                   /\ out' = out
              ELSE /\ out' = WriteSample(out, call.start + call.i, r.y)
                   /\ fault' = fault
           /\ call' = IF call.i + 1 = call.n THEN IdleCall
                      ELSE [call EXCEPT !.i = call.i + 1]
    /\ UNCHANGED voice

-----------------------------------------------------------------------------
(* Actions: the voice's handlers *)

SetRate(d, rate) ==
    VoiceOp(d, "setCurrentPlaybackSampleRate", rate, VoiceSetRate(voice[d], dsp[d], rate))

StartNote(d, note, vel) ==
    VoiceOp(d, "startNote", note, VoiceStartNote(voice[d], dsp[d], note, vel))

\* juce::Synthesiser::noteOn on the instrument's only voice: the synthesiser
\* records the note as the voice's current note, then calls startNote
NoteOn(d, note, vel) ==
    VoiceOp(d, "noteOn", note,
            VoiceStartNote([voice[d] EXCEPT !.playingNote = note], dsp[d], note, vel))

StopNote(d, allowTailOff) ==
    VoiceOp(d, "stopNote", IF allowTailOff THEN 1 ELSE 0,
            VoiceStopNote(voice[d], dsp[d], allowTailOff))

PitchWheel(d, value) ==
    VoiceOp(d, "pitchWheelMoved", value, VoicePitchWheel(voice[d], dsp[d], value))

Controller(d, number, value) ==
    VoiceOp(d, "controllerMoved", value, VoiceController(voice[d], dsp[d], number, value))

Aftertouch(d, value) ==
    VoiceOp(d, "aftertouchChanged", value, VoiceAftertouch(voice[d], dsp[d], value))

-----------------------------------------------------------------------------
(* Spec: one instrument, prepared, played and rendered through the DSP's    *)
(* interface                                                               *)

SampleRates == {8000}

Next ==
    \/ \E rate \in SampleRates : Prepare(1, rate)
    \/ Reset(1)
    \/ \E k \in {1, 3} : SetParams(1, k)
    \/ \E b \in BOOLEAN : SetGate(1, b)
    \/ HostBuffer(1)
    \/ Render(1, 0, 1)
    \/ RenderSample

Spec == Init /\ [][Next]_vars

-----------------------------------------------------------------------------
(* Properties of Spec *)

\* the step is one pass of render's sample loop
IsSampleStep == nsamp' = nsamp + 1

\* the pressure target the next pass of the loop computes for instance d
TargetNow(d) == DspSample(dsp[d], oscPhase).target

\* C1: every sample value y that render adds into the output buffer
\* satisfies -1 <= y <= 1.
C1_OutputInRange ==
    last.op = "sample" => FGe(last.arg, -One) /\ FGe(One, last.arg)

\* C2: on a sample rendered with the gate on and the envelope below the
\* pressure target T, the envelope does not decrease and does not exceed T.
C2_AttackMonotone ==
    [][(IsSampleStep /\ dsp[call.d].gate /\ FLt(dsp[call.d].env, TargetNow(call.d)))
         => /\ FGe(dsp'[call.d].env, dsp[call.d].env)
            /\ FGe(TargetNow(call.d), dsp'[call.d].env)]_vars

\* a sample was rendered with the gate on and left the envelope risen above
\* 0 and still below the target of the next sample
C2_Witness ==
    /\ last.op = "sample" /\ dsp[1].gate
    /\ dsp[1].env > 0 /\ dsp[1].env < TargetNow(1)

\* C3: on a sample rendered with the gate off the pressure target is 0, the
\* envelope does not increase and does not go below 0, and a positive
\* envelope moves toward 0 (the envelope of a held-off gate is a function of
\* its previous value alone: one that does not move never reaches 0).
C3_ReleaseDecays ==
    [][(IsSampleStep /\ ~dsp[call.d].gate)
         => /\ TargetNow(call.d) = 0
            /\ dsp'[call.d].env <= dsp[call.d].env
            /\ dsp'[call.d].env >= 0
            /\ (dsp[call.d].env > 0 => dsp'[call.d].env < dsp[call.d].env)]_vars

\* C6: after reset() the envelope, the vibrato phase and the sine-anchor
\* phase are 0, the five filters and the four motion estimators are cleared
\* and the gate is false.
C6_ResetZeroesAll ==
    last.op = "reset" =>
        /\ dsp[last.d].env = 0
        /\ dsp[last.d].phase = 0
        /\ oscPhase = 0
        /\ dsp[last.d].filt = FiltersCleared
        /\ dsp[last.d].me = MotionCleared
        /\ ~dsp[last.d].gate

-----------------------------------------------------------------------------
(* SpecBuf: one instrument rendering into buffers of every channel count,   *)
(* at every start and length the buffer admits                             *)

NextBuf ==
    \/ \E rate \in SampleRates : Prepare(1, rate)
    \/ SetParams(1, 1)
    \/ SetVelocity(1, One)
    \/ SetGate(1, TRUE)
    \/ \E nch \in 0 .. MaxChannels : HostBuffer(nch)
    \/ \E s \in 0 .. BufLen - 1 : \E n \in 0 .. BufLen - s : Render(1, s, n)
    \/ RenderSample

SpecBuf == Init /\ [][NextBuf]_vars

\* C9: each pass of render's loop adds the same value y to index
\* startSample + i of every channel of the buffer and leaves every other
\* index as it was; entering and leaving render change no sample.
C9_AdditiveLocal ==
    [][IF IsSampleStep
       THEN /\ DOMAIN out' = DOMAIN out
            /\ \A c \in DOMAIN out : \A k \in 1 .. BufLen :
                 out'[c][k] = IF k = call.start + call.i + 1
                              THEN FAdd(out[c][k], last'.arg)
                              ELSE out[c][k]
       ELSE last'.op # "buffer" => out' = out]_vars

\* render is at its second pass over a two-channel buffer: the first pass
\* added a non-zero y to a sample that was not zero before, on both channels
C9_Witness ==
    /\ call.op = "render" /\ call.i >= 1 /\ last.op = "sample" /\ Len(out) = 2
    /\ last.arg # 0
    /\ out[1][call.start + call.i] # last.arg
    /\ out[2][call.start + call.i] = out[1][call.start + call.i]

\* C10: a pass of render's loop over a buffer of zero channels accesses no
\* sample and signals no failure.
C10_ZeroChannelsGraceful ==
    (last.op = "sample" /\ Len(out) = 0) => fault = "none"

-----------------------------------------------------------------------------
(* SpecCtl: the control setters of the DSP and the controller handlers of   *)
(* the voice, called in any order with arguments inside and outside their   *)
(* domains                                                                 *)

NextCtl ==
    \/ \E hz \in {5, 20000, NaN} : SetPitchHz(1, hz)
    \/ \E v \in {-One, 2 * One, NaN} : SetVelocity(1, v)
    \/ \E v \in {-One, 2 * One} : SetModWheel(1, v)
    \/ \E v \in {-One, 2 * One} : SetAftertouch(1, v)
    \/ \E v \in {-2 * One, 2 * One} : SetPitchBendNorm(1, v)
    \/ \E w \in {-9000, 12288, 30000} : PitchWheel(1, w)
    \/ \E num \in {1, 7} : \E v \in {-5, 64, 200} : Controller(1, num, v)
    \/ \E v \in {-5, 64, 200} : Aftertouch(1, v)

SpecCtl == Init /\ [][NextCtl]_vars

\* the bound of [lo, hi] nearest to v, or v itself when it lies inside
\* within [lo, hi]; no comparison with a NaN is true
Within(v, lo, hi) == FGe(v, lo) /\ FGe(hi, v)

\* C7: the stored pitch lies in [20, 12000] Hz, velocity, mod wheel and
\* aftertouch in [0, 1] and pitch bend in [-1, 1], whatever arguments the
\* setters were given.
C7_ControlsClamped ==
    \A d \in Inst :
        /\ Within(dsp[d].pitchHz, 20, 12000)
        /\ Within(dsp[d].velocity, 0, One)
        /\ Within(dsp[d].modWheel, 0, One)
        /\ Within(dsp[d].aftertouch, 0, One)
        /\ Within(dsp[d].pitchBend, -One, One)

-----------------------------------------------------------------------------
(* SpecVoice: notes started and stopped on the instrument's voice           *)

Notes == {57, 69, 81}

NextVoice ==
    \/ \E rate \in SampleRates : SetRate(1, rate)
    \/ \E note \in Notes : \E vel \in {One \div 2, 2 * One} : StartNote(1, note, vel)
    \/ \E note \in Notes : \E vel \in {One \div 2, 2 * One} : NoteOn(1, note, vel)
    \/ \E tail \in BOOLEAN : StopNote(1, tail)

SpecVoice == Init /\ [][NextVoice]_vars

\* C4: startNote sets targetHz to the frequency of the new note; it leaves
\* currentHz as it was when the voice is active on entry, and sets it to
\* targetHz when the voice is not.  The startNote that noteOn runs finds the
\* voice active, noteOn having recorded the note before it.
C4_StartNoteGlide ==
    [][/\ last'.op = "startNote" =>
            /\ voice'[last'.d].targetHz = midiToHz(last'.arg)
            /\ isVoiceActive(voice[last'.d])
                 => voice'[last'.d].currentHz = voice[last'.d].currentHz
            /\ ~isVoiceActive(voice[last'.d])
                 => voice'[last'.d].currentHz = voice'[last'.d].targetHz
       /\ last'.op = "noteOn" =>
            /\ voice'[last'.d].targetHz = midiToHz(last'.arg)
            /\ voice'[last'.d].currentHz = voice[last'.d].currentHz]_vars

\* startNote was called on an active voice and left currentHz away from the
\* new targetHz
C4_Witness ==
    /\ last.op = "startNote" /\ isVoiceActive(voice[1])
    /\ voice[1].currentHz # voice[1].targetHz

-----------------------------------------------------------------------------
(* SpecPair: two instruments of one process, each receiving calls of its    *)
(* own; the calls each received and the samples each produced are recorded  *)

\* instance 2 is handed the call that instance 1 received at the same place
\* of its sequence
Replays(c) ==
    /\ Len(log.calls[2]) < Len(log.calls[1])
    /\ log.calls[1][Len(log.calls[2]) + 1] = c

NextPair ==
    \/ \E rate \in SampleRates : Prepare(1, rate)
    \/ SetParams(1, 1)
    \/ SetVelocity(1, One)
    \/ SetGate(1, TRUE)
    \/ Render(1, 0, 1)
    \/ \E rate \in SampleRates : Replays(<<"prepare", rate>>) /\ Prepare(2, rate)
    \/ Replays(<<"setParams", 1>>) /\ SetParams(2, 1)
    \/ Replays(<<"setVelocity", One>>) /\ SetVelocity(2, One)
    \/ Replays(<<"setGate", 1>>) /\ SetGate(2, TRUE)
    \/ Replays(<<"render", 1>>) /\ Render(2, 0, 1)
    \/ RenderSample

SpecPair == InitWith(TRUE) /\ [][NextPair]_vars

\* C5: two instances that received the same sequence of calls, every call
\* completed, produced the same sequence of samples.
C5_Deterministic ==
    (call.op = "idle" /\ log.calls[1] = log.calls[2]) => log.outs[1] = log.outs[2]

-----------------------------------------------------------------------------
(* SpecParams: setParams called with argument sets inside, below and above  *)
(* the domains, on an instrument prepared at either rate and rendered       *)

NextParams ==
    \/ \E rate \in {8000, 48000} : Prepare(1, rate)
    \/ \E k \in 1 .. 3 : SetParams(1, k)
    \/ Render(1, 0, 1)
    \/ RenderSample

SpecParams == Init /\ [][NextParams]_vars

\* C8: after setParams the targets of air, tone, formant, resistance, vibrato
\* depth, noise color, sine anchor and motion sensitivity lie in [0, 1], the
\* vibrato-rate target lies in [0.5, 8] Hz, the attack and release times are
\* bounded (their coefficients are below 1) and the output-gain target is
\* bounded (finite).
C8_ParamsBounded ==
    last.op = "setParams" =>
        /\ \A k \in SmNames \ {"vibrRate", "outGain"} :
             dsp[last.d].sm[k].tgt >= 0 /\ dsp[last.d].sm[k].tgt <= One
        /\ dsp[last.d].sm["vibrRate"].tgt >= One \div 2
        /\ dsp[last.d].sm["vibrRate"].tgt <= 8 * One
        /\ dsp[last.d].envA < One
        /\ dsp[last.d].envR < One
        /\ IsFin(dsp[last.d].sm["outGain"].tgt)

-----------------------------------------------------------------------------
(* SpecPhase: one instrument prepared at a low and at a usual rate, its     *)
(* pitch set to either end of [20, 12000] Hz, rendered sample by sample     *)

NextPhase ==
    \/ \E rate \in {8000, 48000} : Prepare(1, rate)
    \/ SetParams(1, 1)
    \/ \E hz \in {20, 12000} : SetPitchHz(1, hz)
    \/ Render(1, 0, 1)
    \/ RenderSample

SpecPhase == Init /\ [][NextPhase]_vars

\* C11: the vibrato phase and the sine-anchor phase lie in [0, 1) in every
\* state.
C11_PhasesWrapped ==
    /\ \A d \in Inst : dsp[d].phase >= 0 /\ dsp[d].phase < PhaseOne
    /\ oscPhase >= 0 /\ oscPhase < PhaseOne

-----------------------------------------------------------------------------
(* BreathLeadVoice::renderNextBlock and BreathLeadSynth::reset              *)

\* a glide that steps away from the target
GlideStepAway(currentHz, targetHz, glideCoeff) ==
    FAdd(currentHz, TDiv(glideCoeff * (currentHz - targetHz), One))

\* currentHz = targetHz + glideCoeff * (currentHz - targetHz), in whole Hz
GlideStep(currentHz, targetHz, glideCoeff) ==
    FAdd(targetHz, TDiv(glideCoeff * (currentHz - targetHz), One))

\* renderNextBlock is entered (lines 106-109): updateParamsFromAPVTS hands
\* the host's parameter values, argument set k, to setParams, and the glide
\* coefficient is recomputed.  The synthesiser calls it for its voice on
\* every block, whether the voice is active or not.
RenderNextBlock(d, k, startSample, numSamples) ==
    /\ Ready
    /\ dsp[d].prepared
    /\ startSample + numSamples <= BufLen
    /\ nsamp + numSamples <= MaxSamples
    /\ dsp' = [dsp EXCEPT ![d] = DspSetParams(dsp[d], ParamSet(k))]
    /\ voice' = [voice EXCEPT ![d].glideCoeff =
                    coeffFromMs(Max(1, voice[d].portamentoMs), voice[d].sr)]
    /\ call' = IF numSamples = 0 THEN IdleCall
               ELSE [op |-> "block", d |-> d, start |-> startSample,
                     n |-> numSamples, i |-> 0]
    /\ Done("renderNextBlock", d, numSamples)
    /\ Logged(d, <<"renderNextBlock", numSamples>>)
    /\ UNCHANGED <<oscPhase, out, fault, nsamp>>

\* One pass of renderNextBlock's loop (lines 111-119): the glide advances,
\* the DSP takes the glided pitch and renders one sample into a one-sample
\* view of the output buffer at startSample + i.
BlockSample ==
    /\ call.op = "block" /\ fault # "segv"
    /\ LET d  == call.d
           hz == GlideStep(voice[d].currentHz, voice[d].targetHz, voice[d].glideCoeff)
           r  == DspSample(DspSetPitchHz(dsp[d], hz), oscPhase)
       IN  /\ voice' = [voice EXCEPT ![d].currentHz = hz]
           /\ dsp' = [dsp EXCEPT ![d] = r.o]
           /\ oscPhase' = r.osc
           /\ nsamp' = nsamp + 1
           /\ Done("sample", d, r.y)
           /\ log' = IF log.on THEN [log EXCEPT !.outs[d] = Append(@, r.y)] ELSE log
           /\ IF Len(out) = 0
              THEN /\ fault' \in {"segv", "stray"}
                   /\ out' = out
              ELSE /\ out' = WriteSample(out, call.start + call.i, r.y)
                   /\ fault' = fault
           /\ call' = IF call.i + 1 = call.n THEN IdleCall
                      ELSE [call EXCEPT !.i = call.i + 1]

\* BreathLeadSynth::reset: stopNote(0.0f, false) on the only voice
SynthReset(d) ==
    VoiceOp(d, "synthReset", 0, VoiceStopNote(voice[d], dsp[d], FALSE))

-----------------------------------------------------------------------------
(* SpecPlay: the instrument as its host drives it: the rate is set, notes   *)
(* start and stop, the instrument is reset, and blocks of one sample are    *)
(* rendered through the voice                                              *)

NextPlay ==
    \/ \E rate \in SampleRates : SetRate(1, rate)
    \/ \E note \in {57, 69} : NoteOn(1, note, One)
    \/ \E tail \in BOOLEAN : StopNote(1, tail)
    \/ SynthReset(1)
    \/ \E n \in 0 .. 1 : RenderNextBlock(1, 1, 0, n)
    \/ BlockSample

SpecPlay == Init /\ [][NextPlay]_vars

\* C12: stopNote leaves the gate closed, and a sample rendered while the
\* voice is not active (it was stopped without tail-off and no note has
\* started since, or it never played) adds only zero.
C12_StopSilences ==
    /\ last.op = "stopNote" => ~dsp[last.d].gate
    /\ (last.op = "sample" /\ ~isVoiceActive(voice[last.d])) => last.arg = 0

-----------------------------------------------------------------------------
(* SpecZero: the voice given a sample rate of zero or a usual one, and      *)
(* parameter sets with usual and with zero and negative times              *)

NextZero ==
    \/ \E rate \in {0, 8000} : SetRate(1, rate)
    \/ NoteOn(1, 69, One)
    \/ \E k \in 1 .. 2 : \E n \in 0 .. 1 : RenderNextBlock(1, k, 0, n)
    \/ BlockSample

SpecZero == Init /\ [][NextZero]_vars

\* C13: whatever sample rate and times were given, the envelope and glide
\* coefficients and the two phase increments are finite, and the envelope,
\* the phases, currentHz and every rendered sample are finite.
C13_AllFinite ==
    /\ \A d \in Inst :
         /\ IsFin(dsp[d].envA) /\ IsFin(dsp[d].envR) /\ IsFin(voice[d].glideCoeff)
         /\ dsp[d].prepared =>
              /\ IsFin(RateOverSr(dsp[d].sm["vibrRate"].tgt, dsp[d].sr))
              /\ IsFin(HzOverSr(dsp[d].pitchHz, dsp[d].sr))
         /\ IsFin(dsp[d].env) /\ IsFin(dsp[d].phase) /\ IsFin(voice[d].currentHz)
    /\ IsFin(oscPhase)
    /\ last.op = "sample" => IsFin(last.arg)

-----------------------------------------------------------------------------
(* SpecMotion: one instrument with motion sustain enabled, its mod wheel    *)
(* moved between the ends of its range while it renders                    *)

NextMotion ==
    \/ \E rate \in SampleRates : Prepare(1, rate)
    \/ SetParams(1, 3)
    \/ SetGate(1, TRUE)
    \/ \E v \in {0, One} : SetModWheel(1, v)
    \/ Render(1, 0, 1)
    \/ RenderSample

SpecMotion == Init /\ [][NextMotion]_vars

\* the next sample of instance d as the run with motion sustain enabled
\* computes it, and as the run that differs only in having it disabled does
SampleEnabled(d) == DspSample(dsp[d], oscPhase)
SampleDisabled(d) == DspSample([dsp[d] EXCEPT !.motionSustainEnabled = FALSE], oscPhase)

\* the state belongs to a run with motion sustain enabled and the gate on
MotionRun(d) == dsp[d].prepared /\ dsp[d].motionSustainEnabled /\ dsp[d].gate

-----------------------------------------------------------------------------
(* SpecTarget: one instrument whose gate, velocity and mod wheel are set    *)
(* through the DSP's setters, with motion sustain enabled, and rendered     *)

NextTarget ==
    \/ \E rate \in SampleRates : Prepare(1, rate)
    \/ SetParams(1, 3)
    \/ \E isOn \in BOOLEAN : SetGate(1, isOn)
    \/ \E v \in {One, NaN} : SetVelocity(1, v)
    \/ \E v \in {0, One} : SetModWheel(1, v)
    \/ Render(1, 0, 1)
    \/ RenderSample

SpecTarget == Init /\ [][NextTarget]_vars

\* clamp(0.55 * (0.20 + 0.80 * velocity) + 0.75 * modWheel + 0.60 * motionE, 0, 1)
\* for the next sample of instance d
WeightedSum(d) ==
    Clamp(FAdd(FAdd(FMul(Fx(55, 100),
                         FAdd(Fx(20, 100), FMul(Fx(80, 100), dsp[d].velocity))),
                    FMul(Fx(75, 100), dsp[d].modWheel)),
               FMul(Fx(60, 100), DspSample(dsp[d], oscPhase).motionE)),
          0, One)

\* C15: the pressure target of every sample is 0 with the gate off and the
\* clamped weighted sum with the gate on; it lies in [0, 1] and, with the
\* gate on, is at least 0.11.
C15_PressureTargetFormula ==
    \A d \in Inst : dsp[d].prepared =>
        /\ ~dsp[d].gate => TargetNow(d) = 0
        /\ dsp[d].gate => TargetNow(d) = WeightedSum(d)
        /\ Within(TargetNow(d), 0, One)
        /\ dsp[d].gate => FGe(TargetNow(d), Fx(11, 100))

-----------------------------------------------------------------------------
(* SpecGlide: notes an octave or two apart started on the voice, blocks of  *)
(* every length the buffer admits rendered through it                      *)

NextGlide ==
    \/ \E rate \in {0, 8000} : SetRate(1, rate)
    \/ \E note \in {57, 81} : NoteOn(1, note, One)
    \/ \E s \in 0 .. BufLen - 1 : \E n \in 0 .. BufLen - s : RenderNextBlock(1, 1, s, n)
    \/ BlockSample

SpecGlide == Init /\ [][NextGlide]_vars

\* C16: each pass of renderNextBlock's loop has 0 <= glideCoeff < 1, moves
\* currentHz to a value between its previous value and targetHz that is
\* strictly nearer to targetHz unless it was there, by at most
\* |currentHz - targetHz|, leaves targetHz alone, hands the glided value to
\* the DSP and renders exactly one sample; the loop makes numSamples passes.
C16_GlidePerSample ==
    [][call.op = "block" =>
         LET d    == call.d
             cur  == voice[d].currentHz
             tgt  == voice[d].targetHz
             next == voice'[d].currentHz
         IN  /\ voice[d].glideCoeff >= 0 /\ voice[d].glideCoeff < One
             /\ next >= Min(cur, tgt) /\ next <= Max(cur, tgt)
             /\ Abs(next - cur) <= Abs(cur - tgt)
             /\ cur # tgt => Abs(next - tgt) < Abs(cur - tgt)
             /\ voice'[d].targetHz = tgt
             /\ dsp'[d].pitchHz = Clamp(next, 20, 12000)
             /\ nsamp' = nsamp + 1
             /\ call.i < call.n
             /\ call' = IF call.i + 1 = call.n THEN IdleCall
                        ELSE [call EXCEPT !.i = call.i + 1]]_vars

\* the second pass of a two-sample block has been made while the pitch was
\* still on its way from the previous note to the new one
C16_Witness ==
    /\ last.op = "sample" /\ call.op = "idle" /\ nsamp >= 2
    /\ isVoiceActive(voice[1])
    /\ voice[1].currentHz # voice[1].targetHz
    /\ voice[1].currentHz \notin {220, 880}

-----------------------------------------------------------------------------
\* C17: after BreathLeadSynth::reset the voice's DSP core is in its reset
\* state: gate false, envelope 0, vibrato phase 0, filters and motion
\* estimators cleared.
C17_SynthResetClearsDsp ==
    last.op = "synthReset" =>
        /\ ~dsp[last.d].gate
        /\ dsp[last.d].env = 0
        /\ dsp[last.d].phase = 0
        /\ dsp[last.d].filt = FiltersCleared
        /\ dsp[last.d].me = MotionCleared

-----------------------------------------------------------------------------
(* SpecTail: notes started and stopped with and without tail-off, startNote *)
(* also called on the voice as it stands, blocks rendered in between        *)

NextTail ==
    \/ \E rate \in SampleRates : SetRate(1, rate)
    \/ NoteOn(1, 81, One)
    \/ StartNote(1, 57, One)
    \/ \E tail \in BOOLEAN : StopNote(1, tail)
    \/ \E n \in 0 .. 1 : RenderNextBlock(1, 1, 0, n)
    \/ BlockSample

SpecTail == Init /\ [][NextTail]_vars

\* the voice was stopped with tail-off and has not been stopped since
InTail(d) == isVoiceActive(voice[d]) /\ ~dsp[d].gate

\* C18: an active voice becomes inactive only in a stopNote with
\* allowTailOff false; a voice stopped with tail-off stays active through
\* every rendered block and sample; a startNote that follows finds it active
\* and leaves currentHz where the glide had brought it.
C18_ActiveUntilHardStop ==
    [][/\ (isVoiceActive(voice[1]) /\ ~isVoiceActive(voice'[1]))
            => (last'.op = "stopNote" /\ last'.arg = 0)
       /\ (last'.op = "stopNote" /\ last'.arg = 1)
            => (isVoiceActive(voice'[1]) <=> isVoiceActive(voice[1]))
       /\ (InTail(1) /\ last'.op \in {"renderNextBlock", "sample"})
            => InTail(1)'
       /\ (InTail(1) /\ last'.op = "startNote")
            => /\ isVoiceActive(voice'[1])
               /\ voice'[1].currentHz = voice[1].currentHz]_vars

\* two samples have been rendered since the voice was stopped with tail-off
\* on its way to a new pitch, and the voice is still active
C18_Witness ==
    /\ InTail(1) /\ last.op = "sample" /\ call.op = "idle" /\ nsamp >= 2
    /\ voice[1].currentHz # voice[1].targetHz
====
